---- MODULE Spec2Model ----
(***************************************************************************)
(* Request-execution core of bcc-go (src/bcc/manager.go): the lock-retry   *)
(* executor Manager.do, the paginator Manager.GetItems and the task waiter *)
(* Manager.WaitTask, as state machines over an abstract HTTP server.       *)
(*                                                                         *)
(* Time is counted in milliseconds.  An exchange (Client.Do) takes one of  *)
(* ExchangeDurations; a completed retry sleep takes RetryTime.             *)
(***************************************************************************)
EXTENDS Integers, Sequences, FiniteSets, TLC

\* ---------------------------------------------------------------- constants
\* manager.go:26-28
RetryTime == 500
LockTimeout == 1200
TaskTimeout == 600

\* ------------------------------------------------------------------- bounds
\* Durations of one HTTP exchange, in ms.  Four fast exchanges plus four retry
\* sleeps last exactly LockTimeout seconds, two exactly TaskTimeout seconds.
FastExchange == 299500
SlowExchange == 700000
\* Catalogue of the list server (items 1..MaxItems) and its largest page size.
MaxItems == 3
MaxLimit == 2
\* Pages one GetItems call may request before the model stops following it.
MaxPages == 4
\* Job polls one WaitTask call may make before the model stops following it.
MaxPolls == 4
\* Override maps one merge call may be handed.
MaxOverrides == 2

ExchangeDurations == {FastExchange, SlowExchange}

\* Points of a retry sleep (ms after its start) at which a cancellation of the
\* scope is observed: always before the timer of RetryTime fires.
CancelOffsets == {0, RetryTime \div 2, RetryTime - 1}

VARIABLES
    op,             \* the verb executing: "none", "do", "GetItems", "WaitTask"
    cancelled,      \* m.ctx.Done() is closed
    \* ---- Manager.do: parameters
    reqCtx,         \* the request carries m.ctx (req.WithContext was called)
    targetKind,     \* target: "nil", "ptr" (decodable into), "val" (not a pointer)
    urlConfig,      \* strings.Contains(url, "config")
    \* ---- Manager.do: locals and result
    dpc,            \* "idle", "send" (top of the loop), "sleep", "ret", "panic"
    elapsed,        \* time.Since(start), ms
    locked_object,  \* var locked_object ObjectLocked (declared outside the loop)
    dtasks,         \* returned task-handle string
    derr,           \* returned error
    decoded,        \* what json.Unmarshal(b, target) stored through target
    \* ---- Manager.do: history of the call (observers, not read by the code)
    exch,           \* exchanges issued (Client.Do calls)
    sleeps,         \* retry sleeps that ran to the end
    retries,        \* times the loop reached `continue`
    sleptMs,        \* time spent in m.sleep, ms
    n409,           \* exchanges answered with status 409
    nLock,          \* responses that were lock responses (see IsLockResponse)
    nOther,         \* exchanges that ended any other way
    lastResp,       \* the outcome of the last exchange
    \* ---- Manager.GetItems
    srvN, srvL,     \* the list server: number of items held, page size
    gpc,            \* "idle", "call" (page GET in m.do), "done", "panic", "cut"
    page,           \* page
    target,         \* the caller's destination slice (*target)
    temp,           \* temp of the last page whose envelope m.do decoded
    gerr,           \* returned error
    pagesReq,       \* history: the page numbers requested, in order
    honest,         \* history: every envelope so far was the server's true page
    doFailed,       \* history: some page's m.do returned an error
    target0,        \* history: the destination at the start of the call
    \* ---- Manager.WaitTask
    wpc,            \* "idle", "get" (m.Get in m.do), "sleep", "done", "cut"
    task,           \* var task Task
    taskElapsed,    \* time.Since(start) of WaitTask, ms
    werr,           \* returned error
    polls,          \* history: job fetches issued
    \* ---- Arguments.merge
    mpc,            \* "idle", "loop" (range extraArgs), "done"
    args,           \* the receiver map
    extraArgs,      \* the override maps
    mi,             \* index of the override map the outer loop is at
    args0,          \* history: the receiver at the call
    extraArgs0,     \* history: the override maps at the call
    \* ---- Manager.Request / Manager.Delete / Manager.waitTasks
    verb,           \* "Request" or "Delete" ("" outside them)
    rpc,            \* "idle", "do", "wait" (waitTasks loop), "waiting" (in
                    \* WaitTask), "done", "panic", "cut"
    taskIds,        \* taskIds returned by m.do
    rerr,           \* err returned by m.do; what Request / Delete returns
    ti,             \* index into strings.Split(taskIds, ",")
    waitErr,        \* what m.waitTasks returned
    waited,         \* history: the ids WaitTask was invoked with, in order
    waitEnds,       \* history: the error each finished WaitTask returned
    \* ---- loopWaitLock
    lpc,            \* "idle", "get" (manager.Get in m.do), "sleep", "done",
                    \* "panic", "cut"
    wait,           \* var wait struct{ Locked bool }
    lerr,           \* returned err
    lpolls,         \* history: fetches of the lock state issued
    sleptThrough    \* history: a time.Sleep ran on with the scope cancelled

envVars == <<op, cancelled>>
doParams == <<reqCtx, targetKind, urlConfig>>
doLocals == <<dpc, elapsed, locked_object, dtasks, derr, decoded>>
doHist == <<exch, sleeps, retries, sleptMs, n409, nLock, nOther, lastResp>>
itemsVars == <<srvN, srvL, gpc, page, target, temp, gerr, pagesReq, honest,
               doFailed, target0>>
taskVars == <<wpc, task, taskElapsed, werr, polls>>
mergeVars == <<mpc, args, extraArgs, mi, args0, extraArgs0>>
reqVars == <<verb, rpc, taskIds, rerr, ti, waitErr, waited, waitEnds>>
lockVars == <<lpc, wait, lerr, lpolls, sleptThrough>>
callerVars == <<mergeVars, reqVars, lockVars>>
vars == <<envVars, doParams, doLocals, doHist, itemsVars, taskVars, callerVars>>

\* ------------------------------------------------------------------- errors
\* An error value: its kind, and the data its message or fields carry.
Err(kind, info) == [kind |-> kind, info |-> info]
NoErr == Err("nil", <<>>)
IsNil(e) == e.kind = "nil"

\* ------------------------------------------------------- JSON and Go slices
\* A Go slice: nil, or a (possibly empty) list.
NilSlice == [isNil |-> TRUE, v |-> <<>>]
Slice(s) == [isNil |-> FALSE, v |-> s]

\* A JSON object member holding a list: absent, null, or an array.
Absent == [p |-> "absent", v |-> <<>>]
Null == [p |-> "null", v |-> <<>>]
Array(s) == [p |-> "array", v |-> s]

\* encoding/json on one struct field of slice type: an absent member leaves the
\* field as it was, null stores nil, an array stores a fresh non-nil slice.
UnmarshalField(member, old) ==
    CASE member.p = "absent" -> old
      [] member.p = "null" -> NilSlice
      [] OTHER -> Slice(member.v)

OL == "object_locked"

\* Bodies of error responses (409 and other non-2xx): empty, not JSON of the
\* expected shape, or an object with optional error_alias / non_field_errors.
AliasMembers ==
    {Absent, Null, Array(<<>>), Array(<<OL>>), Array(<<"quota">>),
     Array(<<OL, "quota">>), Array(<<"quota", OL>>)}
NfeMembers == {Absent, Null, Array(<<>>), Array(<<"busy">>)}
ErrorBodies ==
    {[form |-> f, ea |-> Absent, nfe |-> Absent] : f \in {"empty", "invalid"}}
    \cup {[form |-> "object", ea |-> a, nfe |-> n] :
            a \in AliasMembers, n \in NfeMembers}

\* X-Esu-Tasks header values, as sequences of characters: the empty header and
\* one task handle.  Page and job fetches are answered without the header.
TaskHeaders == {<<>>, <<"a">>}
\* Header values the mutating verbs are answered with: none, one handle, two
\* handles, handles with blanks and an empty entry in between, blank entries only.
RequestTaskHeaders ==
    {<<>>, <<"a">>, <<"a", ",", "b">>, <<" ", "a", " ", ",", ",", "b">>,
     <<",", " ">>}
TaskHeadersOf(o) ==
    CASE o \in {"GetItems", "WaitTask", "WaitLock"} -> {<<>>}
      [] o \in {"Request", "Delete"} -> RequestTaskHeaders
      [] OTHER -> TaskHeaders

\* ------------------------------------------------------------ the server
\* Paged list envelope {total, limit, items}.  items is absent, null, an array
\* the element type rejects ("bad"), or an array of items.
Catalogue == [i \in 1..MaxItems |-> i]
ZeroEnvelope == [total |-> 0, limit |-> 0, items |-> Absent]

Min(a, b) == IF a < b THEN a ELSE b

\* The page a server holding items 1..n serves for page p with page size l.
HonestPage(n, l, p) ==
    [total |-> n, limit |-> l,
     items |-> Array(SubSeq(Catalogue, (p - 1) * l + 1, Min(p * l, n)))]

\* Envelopes a list server may answer page p with: its true page, and that page
\* with one thing off: a drifting total, limit 0, a missing or extra item, or
\* items that are null, absent or of the wrong type.
PageEnvelopes(n, l, p) ==
    LET h == HonestPage(n, l, p)
        its == h.items.v
    IN {h,
        [h EXCEPT !.total = n + 1],
        [h EXCEPT !.total = IF n > 0 THEN n - 1 ELSE 0],
        [h EXCEPT !.limit = 0],
        [h EXCEPT !.items = Array(its \o <<0>>)],
        [h EXCEPT !.items = Array(IF its = <<>> THEN its ELSE SubSeq(its, 1, Len(its) - 1))],
        [h EXCEPT !.items = Null],
        [h EXCEPT !.items = Absent],
        [h EXCEPT !.items = [p |-> "bad", v |-> <<>>]]}

\* Job resource {status, name}.
JobRecords == [status : {"error", "done", "running"}, name : {"provision", "deploy"}]
ZeroTask == [status |-> "", name |-> ""]

\* What a decodable 2xx body holds, by the verb that issued the request.
Payloads(o) ==
    CASE o = "GetItems" -> PageEnvelopes(srvN, srvL, page)
      [] o = "WaitTask" -> JobRecords
      [] o = "WaitLock" -> {[locked |-> TRUE], [locked |-> FALSE]}
      [] OTHER -> {[data |-> "d"]}
ZeroPayload(o) ==
    CASE o = "GetItems" -> ZeroEnvelope
      [] o = "WaitTask" -> ZeroTask
      [] o = "WaitLock" -> [locked |-> FALSE]
      [] OTHER -> [data |-> ""]

\* Error bodies the server sends to a verb.  The bare executor is run against
\* every body; the page and job fetches against the two well-formed ones.
LockBody == [form |-> "object", ea |-> Array(<<OL>>), nfe |-> Array(<<"busy">>)]
ConflictBody == [form |-> "object", ea |-> Array(<<"quota">>), nfe |-> Array(<<"busy">>)]
ServerErrorBodies(o) == IF o = "do" THEN ErrorBodies ELSE {LockBody, ConflictBody}

\* Outcomes of Client.Do.  status 0 stands for a transport failure (no response).
TransportFailures ==
    {[status |-> 0, dur |-> d] : d \in ExchangeDurations}
ErrorResponses(o) ==
    {[status |-> 409, dur |-> d, body |-> b] :
        d \in ExchangeDurations, b \in ServerErrorBodies(o)}
    \cup
    {[status |-> s, dur |-> FastExchange, body |-> b] :
        s \in {199, 300, 500},
        b \in {LockBody, ConflictBody, [form |-> "invalid", ea |-> Absent, nfe |-> Absent]}}
SuccessResponses(o) ==
    {[status |-> 200, dur |-> FastExchange, form |-> "object", readOk |-> TRUE,
      exportOk |-> TRUE, tasks |-> h, payload |-> pl] :
        h \in TaskHeadersOf(o), pl \in Payloads(o)}
    \cup
    {[status |-> s, dur |-> d, form |-> k[1], readOk |-> k[2], exportOk |-> k[3],
      tasks |-> h, payload |-> ZeroPayload(o)] :
        s \in {200, 299}, d \in ExchangeDurations, h \in TaskHeadersOf(o),
        k \in {<<"empty", TRUE, TRUE>>, <<"invalid", TRUE, TRUE>>,
               <<"object", FALSE, TRUE>>, <<"object", TRUE, FALSE>>}}

\* A lock response: 409 whose payload is the server's structured error with
\* error_alias ["object_locked"] and a non-empty non_field_errors list.
IsLockResponse(r) == r.status = 409 /\ r.body = LockBody
Is2xx(r) == r.status >= 200 /\ r.status <= 299
\* A 2xx response that m.do reads and decodes without error.
Accepted(r, tk, cfg) ==
    /\ Is2xx(r) /\ r.readOk
    /\ \/ r.form = "empty"
       \/ tk = "nil"
       \/ cfg /\ r.exportOk
       \/ ~cfg /\ r.form = "object" /\ tk = "ptr"

\* What the history keeps of an exchange's outcome.
\* A 409 response carrying the structured payload: an error_alias array and a
\* non-empty non_field_errors array.
IsStructured409(r) ==
    /\ r.status = 409 /\ r.body.form = "object"
    /\ r.body.ea.p = "array"
    /\ r.body.nfe.p = "array" /\ Len(r.body.nfe.v) > 0
Seen(r, tk, cfg) ==
    [status |-> r.status, accepted |-> Accepted(r, tk, cfg),
     aliases |-> IF IsStructured409(r) THEN r.body.ea.v ELSE <<>>,
     carried |-> IF r.status = 409 /\ r.body.form = "object" THEN r.body.ea.v
                 ELSE <<>>,
     tasks |-> IF Is2xx(r) THEN r.tasks ELSE <<>>,
     payload |-> IF Is2xx(r) /\ r.readOk /\ r.form = "object"
                 THEN r.payload ELSE ZeroPayload(op)]
NoResponse ==
    [status |-> -1, accepted |-> FALSE, aliases |-> <<>>, carried |-> <<>>,
     tasks |-> <<>>,
     payload |-> ZeroPayload(op)]

\* ------------------------------------------------------------ Manager.do
ZeroLocked == [ErrorAlias |-> NilSlice, NonFieldErrors |-> NilSlice]

\* The outcome of one pass of the loop body after Client.Do returned.
\*   pc: "sleep" (go on to m.sleep), "ret" (return tasks, err), "panic"
Out_tasks(pc, lo, tasks, err, set, val) ==
    [pc |-> pc, lo |-> lo, tasks |-> <<"a">>, err |-> err, set |-> set, val |-> val]
Out(pc, lo, tasks, err, set, val) ==
    [pc |-> pc, lo |-> lo, tasks |-> tasks, err |-> err, set |-> set, val |-> val]

\* resp_.StatusCode == 409
IsLockStatus_5xx(s) == s = 409 \/ s >= 500
IsLockStatus(s) == s = 409

\* error_alias != "object_locked"
IsRealConflict_inverted(alias) == alias = OL
IsRealConflict(alias) == alias # OL

\* Lines 346-363: the 409 branch up to the sleep.
On409(body, lo) ==
    IF body.form # "object"
    THEN Out("ret", lo, <<>>, Err("LockBodyDecode", <<>>), FALSE, <<>>)
    ELSE LET lo2 == [ErrorAlias |-> UnmarshalField(body.ea, lo.ErrorAlias),
                     NonFieldErrors |->
                         UnmarshalField(body.nfe, lo.NonFieldErrors)]
         IN IF lo2.ErrorAlias.isNil
            THEN Out("sleep", lo2, <<>>, NoErr, FALSE, <<>>)
            ELSE IF Len(lo2.ErrorAlias.v) = 0 \/ Len(lo2.NonFieldErrors.v) = 0
            THEN Out("panic", lo2, <<>>, Err("panic", <<>>), FALSE, <<>>)
            ELSE IF IsRealConflict(lo2.ErrorAlias.v[1])
            THEN Out("ret", lo2, <<>>,
                     Err("Business", <<lo2.NonFieldErrors.v[1]>>), FALSE, <<>>)
            ELSE Out("sleep", lo2, <<>>, NoErr, FALSE, <<>>)

\* errors.go:17-30
NewApiError(r) ==
    Err("ApiError",
        [code |-> r.status, body |-> r.body,
         aliases |-> IF r.body.form = "object"
                     THEN UnmarshalField(r.body.ea, NilSlice)
                     ELSE NilSlice])

\* Lines 390-424: a 2xx response.
OnSuccess(r, lo, tk, cfg) ==
    IF ~r.readOk
    THEN Out("ret", lo, <<>>, Err("Read", <<>>), FALSE, <<>>)
    ELSE IF r.form = "empty" \/ tk = "nil"
    THEN Out("ret", lo, r.tasks, NoErr, FALSE, <<>>)
    ELSE IF cfg
    THEN IF r.exportOk
         THEN Out("ret", lo, r.tasks, NoErr, FALSE, <<>>)
         ELSE Out("ret", lo, <<>>, Err("ConfigFile", <<>>), FALSE, <<>>)
    ELSE IF r.form = "object" /\ tk = "ptr"
    THEN Out("ret", lo, r.tasks, NoErr, TRUE, r.payload)
    ELSE Out("ret", lo, <<>>, Err("JSONDecode", <<>>), FALSE, <<>>)

\* Lines 339-425 for one response.
OnResponse(r, lo, tk, cfg) ==
    IF r.status = 0
    THEN Out("ret", lo, <<>>, Err("Transport", <<>>), FALSE, <<>>)
    ELSE IF IsLockStatus(r.status)
    THEN On409(r.body, lo)
    ELSE IF r.status < 200 \/ r.status > 299
    THEN Out("ret", lo, <<>>, NewApiError(r), FALSE, <<>>)
    ELSE OnSuccess(r, lo, tk, cfg)

\* elapsedTime.Seconds() > float64(LockTimeout)
LockTimedOut_ge(e) == e >= LockTimeout * 1000
LockTimedOut(e) == e > LockTimeout * 1000

\* SleepWithContext: which of the two select cases can be taken.  A scope that
\* is cancelled before the timer fires wins the select; otherwise the timer.
SleepWithContext_noctx(c) == {"timer"}
SleepWithContext(c) == IF c THEN {"ctx"} ELSE {"timer"}

\* Manager.sleep: m.ctx is set by NewManager and WithContext, so the sleep
\* is SleepWithContext(m.ctx, dur).
sleep(c) == SleepWithContext(c)

\* Lines 329-333: entry of m.do.
EnterDo(rc, tk, cfg) ==
    /\ reqCtx' = rc /\ targetKind' = tk /\ urlConfig' = cfg
    /\ dpc' = "send"
    /\ elapsed' = 0
    /\ locked_object' = ZeroLocked
    /\ dtasks' = <<>>
    /\ derr' = NoErr
    /\ decoded' = [set |-> FALSE, val |-> <<>>]
    /\ exch' = 0 /\ sleeps' = 0 /\ retries' = 0 /\ sleptMs' = 0
    /\ n409' = 0 /\ nLock' = 0 /\ nOther' = 0
    /\ lastResp' = NoResponse

\* Time passing while WaitTask runs counts towards its own clock.
Tick(d) ==
    taskElapsed' = IF op = "WaitTask" THEN taskElapsed + d ELSE taskElapsed
taskRest == <<wpc, task, werr, polls>>

\* m.do is over: it returned, or panicked.
Returned == dpc \in {"ret", "panic"}

\* Lines 336-425: one exchange and what the loop body does with its outcome.
\* A request that carries a cancelled scope fails in the transport.
Exchange ==
    /\ dpc = "send"
    /\ \E r \in TransportFailures \cup ErrorResponses(op) \cup SuccessResponses(op) :
        /\ (reqCtx /\ cancelled) => r.status = 0
        /\ LET o == OnResponse(r, locked_object, targetKind, urlConfig) IN
            /\ dpc' = o.pc
            /\ locked_object' = o.lo
            /\ dtasks' = o.tasks
            /\ derr' = o.err
            /\ decoded' = IF o.set THEN [set |-> TRUE, val |-> o.val] ELSE decoded
        /\ elapsed' = elapsed + r.dur
        /\ Tick(r.dur)
        /\ exch' = exch + 1
        /\ n409' = IF r.status = 409 THEN n409 + 1 ELSE n409
        /\ nLock' = IF IsLockResponse(r) THEN nLock + 1 ELSE nLock
        /\ nOther' = IF IsLockResponse(r) THEN nOther ELSE nOther + 1
        /\ lastResp' = Seen(r, targetKind, urlConfig)
    /\ UNCHANGED <<envVars, doParams, sleeps, retries, sleptMs, itemsVars, taskRest,
                   callerVars>>

\* Lines 365-376: the retry sleep runs to its end; then the timeout test.
SleepTimer ==
    /\ dpc = "sleep"
    /\ "timer" \in sleep(cancelled)
    /\ elapsed' = elapsed + RetryTime
    /\ Tick(RetryTime)
    /\ sleptMs' = sleptMs + RetryTime
    /\ sleeps' = sleeps + 1
    /\ IF LockTimedOut(elapsed')
       THEN /\ dpc' = "ret"
            /\ derr' = Err("LockTimeout", <<>>)
            /\ dtasks' = <<>>
            /\ UNCHANGED retries
       ELSE /\ dpc' = "send"
            /\ retries' = retries + 1
            /\ UNCHANGED <<derr, dtasks>>
    /\ UNCHANGED <<envVars, doParams, locked_object, decoded, exch, n409, nLock, nOther,
                   lastResp, itemsVars, taskRest, callerVars>>

\* Lines 365-367: the scope is cancelled during the retry sleep.
SleepCancelled ==
    /\ dpc = "sleep"
    /\ "ctx" \in sleep(cancelled)
    /\ \E t \in CancelOffsets :
        /\ elapsed' = elapsed + t
        /\ Tick(t)
        /\ sleptMs' = sleptMs + t
    /\ dpc' = "ret"
    /\ derr' = Err("Cancelled", <<>>)
    /\ dtasks' = <<>>
    /\ UNCHANGED <<envVars, doParams, locked_object, decoded, exch, sleeps, retries,
                   n409, nLock, nOther, lastResp, itemsVars, taskRest, callerVars>>

\* The caller cancels the execution scope while a verb is running.
Cancel ==
    /\ ~cancelled
    /\ dpc \in {"send", "sleep"} \/ wpc = "sleep" \/ lpc = "sleep"
    /\ cancelled' = TRUE
    /\ UNCHANGED <<op, doParams, doLocals, doHist, itemsVars, taskVars, callerVars>>

\* A caller hands a built request to m.do.
DoCall ==
    /\ op = "none"
    /\ op' = "do"
    /\ \E rc \in BOOLEAN, tk \in {"nil", "ptr", "val"}, cfg \in BOOLEAN :
        EnterDo(rc, tk, cfg)
    /\ UNCHANGED <<cancelled, itemsVars, taskVars, callerVars>>

\* ------------------------------------------------------ Manager.GetItems
\* reflect.AppendSlice(targetValue, currentItemsValue.Elem())
AppendSlice_prepend(t, s) == s \o t
AppendSlice(t, s) == t \o s

\* min(temp.Total-temp.Limit*(page-1), temp.Limit)
CurrentPageSize(tmp, p) == Min(tmp.total - tmp.limit * (p - 1), tmp.limit)

\* json.Unmarshal(temp.Items, currentItems): the raw items decode into a slice
\* unless they are missing or do not fit the element type.
ItemsDecode(items) ==
    CASE items.p = "array" -> [ok |-> TRUE, v |-> items.v]
      [] items.p = "null" -> [ok |-> TRUE, v |-> <<>>]
      [] OTHER -> [ok |-> FALSE, v |-> <<>>]

\* targetValue.Len() == temp.Total
LastPage(t, tmp) == Len(t) = tmp.total

\* Lines 179-216: GetItems is called; page 1 is requested.
GetItemsCall ==
    /\ op = "none"
    /\ op' = "GetItems"
    /\ \E t0 \in {<<>>, <<0>>} : target0' = t0 /\ target' = t0
    /\ page' = 1
    /\ pagesReq' = <<1>>
    /\ gpc' = "call"
    /\ EnterDo(TRUE, "ptr", FALSE)
    /\ UNCHANGED <<cancelled, srvN, srvL, temp, gerr, honest, doFailed, taskVars,
                   callerVars>>

\* Lines 216-233: m.do returned for the current page; the rest of the loop body,
\* and the request of the next page.
GetItemsPage ==
    /\ gpc = "call"
    /\ Returned
    /\ IF dpc = "panic"
       THEN /\ gpc' = "panic"
            /\ UNCHANGED <<page, target, temp, gerr, pagesReq, honest, doFailed,
                           doParams, doLocals, doHist>>
       ELSE IF ~IsNil(derr)
       THEN \* if err != nil { break } ... return nil
            /\ gpc' = "done"
            /\ gerr' = NoErr
            /\ doFailed' = TRUE
            /\ UNCHANGED <<page, target, temp, pagesReq, honest,
                           doParams, doLocals, doHist>>
       ELSE LET tmp == IF decoded.set THEN decoded.val ELSE ZeroEnvelope
                got == ItemsDecode(tmp.items)
                t2 == AppendSlice(target, got.v)
            IN /\ temp' = tmp
               /\ honest' = (honest /\ decoded.set /\ tmp = HonestPage(srvN, srvL, page))
               /\ UNCHANGED doFailed
               /\ IF CurrentPageSize(tmp, page) < 0
                  THEN \* reflect.MakeSlice panics on a negative capacity
                       /\ gpc' = "panic"
                       /\ UNCHANGED <<page, target, gerr, pagesReq,
                                      doParams, doLocals, doHist>>
                  ELSE IF ~got.ok
                  THEN /\ gpc' = "done"
                       /\ gerr' = Err("ItemsDecode", <<page>>)
                       /\ UNCHANGED <<page, target, pagesReq,
                                      doParams, doLocals, doHist>>
                  ELSE /\ target' = t2
                       /\ IF LastPage(t2, tmp)
                          THEN /\ gpc' = "done"
                               /\ gerr' = NoErr
                               /\ UNCHANGED <<page, pagesReq,
                                              doParams, doLocals, doHist>>
                          ELSE IF page >= MaxPages
                          THEN /\ gpc' = "cut"
                               /\ UNCHANGED <<page, gerr, pagesReq,
                                              doParams, doLocals, doHist>>
                          ELSE /\ page' = page + 1
                               /\ pagesReq' = Append(pagesReq, page + 1)
                               /\ gpc' = "call"
                               /\ EnterDo(TRUE, "ptr", FALSE)
                               /\ UNCHANGED gerr
    /\ UNCHANGED <<envVars, srvN, srvL, target0, taskVars, callerVars>>

\* ------------------------------------------------------ Manager.WaitTask
\* m.Get(path, Arguments{}, task): the Task is handed over by value.
WaitTaskTarget_ptr == "ptr"
WaitTaskTarget == "val"

\* task.Status == "error"
TaskFailed(t) == t.status = "error"

\* elapsedTime.Seconds() > float64(TaskTimeout)
TaskTimedOut(e) == e > TaskTimeout * 1000

\* Lines 278-286 (and Get, 158-175): entry of WaitTask; the job is fetched.
EnterWaitTask ==
    /\ wpc' = "get"
    /\ task' = ZeroTask
    /\ taskElapsed' = 0
    /\ werr' = NoErr
    /\ polls' = 1
    /\ EnterDo(TRUE, WaitTaskTarget, FALSE)

\* A caller outside the library calls WaitTask.
WaitTaskCall ==
    /\ op = "none"
    /\ op' = "WaitTask"
    /\ EnterWaitTask
    /\ UNCHANGED <<cancelled, itemsVars, callerVars>>

\* Lines 286-292 (and Get, 175-176): the fetch returned.
WaitTaskPolled ==
    /\ wpc = "get"
    /\ Returned
    /\ task' = IF decoded.set THEN decoded.val ELSE task
    /\ IF dpc = "panic"
       THEN wpc' = "panic" /\ UNCHANGED werr
       ELSE IF ~IsNil(derr)
       THEN \* if err != nil { break } ... return nil
            wpc' = "done" /\ werr' = NoErr
       ELSE IF TaskFailed(task')
       THEN wpc' = "done" /\ werr' = Err("TaskError", <<task'.name>>)
       ELSE wpc' = "sleep" /\ UNCHANGED werr
    /\ UNCHANGED <<envVars, doParams, doLocals, doHist, itemsVars, taskElapsed, polls,
                   callerVars>>

\* Lines 294-304, 286: the poll sleep runs to its end; timeout test; next fetch.
TaskSleepTimer ==
    /\ wpc = "sleep"
    /\ "timer" \in sleep(cancelled)
    /\ taskElapsed' = taskElapsed + RetryTime
    /\ IF TaskTimedOut(taskElapsed')
       THEN /\ wpc' = "done"
            /\ werr' = Err("TaskTimeout", <<>>)
            /\ UNCHANGED <<polls, doParams, doLocals, doHist>>
       ELSE IF polls >= MaxPolls
       THEN /\ wpc' = "cut"
            /\ UNCHANGED <<werr, polls, doParams, doLocals, doHist>>
       ELSE /\ wpc' = "get"
            /\ polls' = polls + 1
            /\ EnterDo(TRUE, WaitTaskTarget, FALSE)
            /\ UNCHANGED werr
    /\ UNCHANGED <<envVars, itemsVars, task, callerVars>>

\* Lines 294-296: the scope is cancelled during the poll sleep.
TaskSleepCancelled ==
    /\ wpc = "sleep"
    /\ "ctx" \in sleep(cancelled)
    /\ \E t \in CancelOffsets : taskElapsed' = taskElapsed + t
    /\ wpc' = "done"
    /\ werr' = Err("Cancelled", <<>>)
    /\ UNCHANGED <<envVars, doParams, doLocals, doHist, itemsVars, task, polls,
                   callerVars>>

\* ------------------------------ Manager.Request, Manager.Delete, waitTasks
\* Position of the first "," in s, 0 when there is none.
IndexComma(s) ==
    IF \E i \in DOMAIN s : s[i] = ","
    THEN CHOOSE i \in DOMAIN s : s[i] = "," /\ \A j \in 1..(i - 1) : s[j] # ","
    ELSE 0

\* strings.Split(taskIds, ","): the pieces between the commas; one empty piece
\* for the empty string.
RECURSIVE Split(_)
Split(s) ==
    LET i == IndexComma(s)
    IN IF i = 0 THEN <<s>>
       ELSE <<SubSeq(s, 1, i - 1)>> \o Split(SubSeq(s, i + 1, Len(s)))

\* strings.TrimSpace(taskId)
RECURSIVE TrimSpace(_)
TrimSpace(s) ==
    IF s # <<>> /\ Head(s) = " " THEN TrimSpace(Tail(s))
    ELSE IF s # <<>> /\ s[Len(s)] = " " THEN TrimSpace(SubSeq(s, 1, Len(s) - 1))
    ELSE s

\* taskId == ""
IsBlank_never(taskId) == FALSE
IsBlank(taskId) == taskId = <<>>

\* Lines 130-152 and 260-272: Request or Delete is called.  Request hands the
\* scope to the request (req.WithContext), Delete does not.  A request that
\* cannot be built (json.Marshal, http.NewRequest) is returned as the error.
RequestCall ==
    /\ op = "none"
    /\ \E v \in {"Request", "Delete"}, tk \in {"nil", "ptr"}, built \in BOOLEAN :
        /\ verb' = v
        /\ op' = v
        /\ IF built
           THEN /\ rpc' = "do"
                /\ rerr' = NoErr
                /\ EnterDo(v = "Request", tk, FALSE)
           ELSE /\ rpc' = "done"
                /\ rerr' = Err("Build", <<>>)
                /\ UNCHANGED <<doParams, doLocals, doHist>>
    /\ taskIds' = <<>> /\ ti' = 0 /\ waitErr' = NoErr
    /\ waited' = <<>> /\ waitEnds' = <<>>
    /\ UNCHANGED <<cancelled, itemsVars, taskVars, mergeVars, lockVars>>

\* Lines 152-153 and 272-273: m.do returned; waitTasks is entered.
RequestDo ==
    /\ rpc = "do"
    /\ Returned
    /\ IF dpc = "panic"
       THEN rpc' = "panic" /\ UNCHANGED <<taskIds, rerr, ti>>
       ELSE /\ taskIds' = dtasks
            /\ rerr' = derr
            /\ ti' = 1
            /\ rpc' = "wait"
    /\ UNCHANGED <<envVars, doParams, doLocals, doHist, itemsVars, taskVars,
                   mergeVars, lockVars, verb, waitErr, waited, waitEnds>>

\* Lines 452-458, and 153-155 / 273-275: the head of the loop of waitTasks: the
\* loop is over and Request / Delete returns err; or the entry is blank and is
\* skipped; or WaitTask is called with it.
WaitTasksNext ==
    /\ rpc = "wait"
    /\ LET parts == Split(taskIds) IN
        IF ti > Len(parts)
        THEN /\ rpc' = "done"
             /\ waitErr' = NoErr
             /\ UNCHANGED <<op, ti, waited, doParams, doLocals, doHist, taskVars>>
        ELSE LET taskId == TrimSpace(parts[ti]) IN
             IF IsBlank(taskId)
             THEN /\ ti' = ti + 1
                  /\ UNCHANGED <<op, rpc, waitErr, waited, doParams, doLocals, doHist,
                                 taskVars>>
             ELSE /\ op' = "WaitTask"
                  /\ rpc' = "waiting"
                  /\ waited' = Append(waited, taskId)
                  /\ EnterWaitTask
                  /\ UNCHANGED <<ti, waitErr>>
    /\ UNCHANGED <<cancelled, itemsVars, mergeVars, lockVars, verb, taskIds, rerr,
                   waitEnds>>

\* err != nil (line 458)
StopsOnError_never(e) == FALSE
StopsOnError(e) == ~IsNil(e)

\* Lines 458-460, and 153-155 / 273-275: WaitTask returned to waitTasks; on an
\* error waitTasks returns it, and Request / Delete returns err of m.do.
WaitTasksReturned ==
    /\ rpc = "waiting"
    /\ wpc \in {"done", "panic", "cut"}
    /\ op' = verb
    /\ waitEnds' = Append(waitEnds, werr)
    /\ IF wpc # "done"
       THEN rpc' = wpc /\ UNCHANGED <<ti, waitErr>>
       ELSE IF StopsOnError(werr)
       THEN rpc' = "done" /\ waitErr' = werr /\ UNCHANGED ti
       ELSE rpc' = "wait" /\ ti' = ti + 1 /\ UNCHANGED waitErr
    /\ UNCHANGED <<cancelled, doParams, doLocals, doHist, itemsVars, taskVars,
                   mergeVars, lockVars, verb, taskIds, rerr, waited>>

\* ----------------------------------------------------------- loopWaitLock
\* Lines 547-552 (and Get, 158-175): loopWaitLock is called; the lock state is
\* fetched into &wait.
LoopWaitLockCall ==
    /\ op = "none"
    /\ op' = "WaitLock"
    /\ lpc' = "get"
    /\ wait' = [Locked |-> FALSE]
    /\ lerr' = NoErr
    /\ lpolls' = 1
    /\ EnterDo(TRUE, "ptr", FALSE)
    /\ UNCHANGED <<cancelled, itemsVars, taskVars, mergeVars, reqVars, sleptThrough>>

\* Lines 552-558: the fetch returned.
LoopWaitLockPolled ==
    /\ lpc = "get"
    /\ Returned
    /\ wait' = IF decoded.set THEN [Locked |-> decoded.val.locked] ELSE wait
    /\ IF dpc = "panic"
       THEN lpc' = "panic" /\ UNCHANGED lerr
       ELSE IF ~IsNil(derr)
       THEN lpc' = "done" /\ lerr' = derr
       ELSE IF ~wait'.Locked
       THEN lpc' = "done" /\ lerr' = NoErr
       ELSE lpc' = "sleep" /\ UNCHANGED lerr
    /\ UNCHANGED <<envVars, doParams, doLocals, doHist, itemsVars, taskVars,
                   mergeVars, reqVars, lpolls, sleptThrough>>

\* Lines 559, 552: time.Sleep(time.Second) runs to its end whatever the scope
\* does; then the next fetch.
LoopWaitLockSleep ==
    /\ lpc = "sleep"
    /\ sleptThrough' = (sleptThrough \/ cancelled)
    /\ IF lpolls >= MaxPolls
       THEN /\ lpc' = "cut"
            /\ UNCHANGED <<lpolls, doParams, doLocals, doHist>>
       ELSE /\ lpc' = "get"
            /\ lpolls' = lpolls + 1
            /\ EnterDo(TRUE, "ptr", FALSE)
    /\ UNCHANGED <<envVars, itemsVars, taskVars, mergeVars, reqVars, wait, lerr>>

\* ------------------------------------------------------- Arguments.merge
\* type Arguments map[string]string, over two parameter names and two values.
\* A nil map ranges like an empty one.
ArgKeys == {"vdc", "name"}
ArgValues == {"x", "y"}
ArgumentSets == UNION {[d -> ArgValues] : d \in SUBSET ArgKeys}
OverrideLists == UNION {[1..n -> ArgumentSets] : n \in 0..MaxOverrides}

\* args[key] = val
Put_keep(m, k, v) ==
    [x \in DOMAIN m \cup {k} |-> IF x \in DOMAIN m THEN m[x] ELSE v]
Put(m, k, v) == [x \in DOMAIN m \cup {k} |-> IF x = k THEN v ELSE m[x]]

\* for key, val := range extraArg { args[key] = val }, over the keys left.
RECURSIVE RangeAssign(_, _, _)
RangeAssign(a, extraArg, keys) ==
    IF keys = {} THEN a
    ELSE LET key == CHOOSE k \in keys : TRUE
         IN RangeAssign(Put(a, key, extraArg[key]), extraArg, keys \ {key})

\* A caller (GetNetworks and the like) merges the overrides it was handed into
\* a map it has just made.
MergeCall ==
    /\ op = "none"
    /\ op' = "merge"
    /\ mpc' = "loop"
    /\ mi' = 1
    /\ \E a \in ArgumentSets, e \in OverrideLists :
        /\ args' = a /\ args0' = a
        /\ extraArgs' = e /\ extraArgs0' = e
    /\ UNCHANGED <<cancelled, doParams, doLocals, doHist, itemsVars, taskVars,
                   reqVars, lockVars>>

\* Lines 501-505: one round of the outer loop, or its end.
MergeStep ==
    /\ mpc = "loop"
    /\ IF mi > Len(extraArgs)
       THEN mpc' = "done" /\ UNCHANGED <<args, mi>>
       ELSE /\ args' = RangeAssign(args, extraArgs[mi], DOMAIN extraArgs[mi])
            /\ mi' = mi + 1
            /\ UNCHANGED mpc
    /\ UNCHANGED <<envVars, doParams, doLocals, doHist, itemsVars, taskVars,
                   extraArgs, args0, extraArgs0, reqVars, lockVars>>

\* ------------------------------------------------------------ initial state
InitEnv ==
    /\ op = "none" /\ cancelled = FALSE
    /\ reqCtx = TRUE /\ targetKind = "nil" /\ urlConfig = FALSE
    /\ dpc = "idle" /\ elapsed = 0 /\ locked_object = ZeroLocked
    /\ dtasks = <<>> /\ derr = NoErr
    /\ decoded = [set |-> FALSE, val |-> <<>>]
    /\ exch = 0 /\ sleeps = 0 /\ retries = 0 /\ sleptMs = 0
    /\ n409 = 0 /\ nLock = 0 /\ nOther = 0 /\ lastResp = NoResponse
    /\ gpc = "idle" /\ page = 0 /\ target = <<>> /\ temp = ZeroEnvelope
    /\ gerr = NoErr /\ pagesReq = <<>> /\ honest = TRUE /\ doFailed = FALSE
    /\ target0 = <<>>
    /\ wpc = "idle" /\ task = ZeroTask /\ taskElapsed = 0 /\ werr = NoErr
    /\ polls = 0
    /\ mpc = "idle" /\ args = <<>> /\ extraArgs = <<>> /\ mi = 0
    /\ args0 = <<>> /\ extraArgs0 = <<>>
    /\ verb = "" /\ rpc = "idle" /\ taskIds = <<>> /\ rerr = NoErr /\ ti = 0
    /\ waitErr = NoErr /\ waited = <<>> /\ waitEnds = <<>>
    /\ lpc = "idle" /\ wait = [Locked |-> FALSE] /\ lerr = NoErr /\ lpolls = 0
    /\ sleptThrough = FALSE

\* --------------------------------------------- the executor on its own
InitDo == InitEnv /\ srvN = 0 /\ srvL = 1
NextDo == DoCall \/ Exchange \/ SleepTimer \/ SleepCancelled \/ Cancel
SpecDo == InitDo /\ [][NextDo]_vars
\* The server answers every exchange and timers fire.
FairSpecDo == SpecDo /\ WF_vars(Exchange \/ SleepTimer \/ SleepCancelled)

\* --------------------------------------------- the paginator over m.do
InitItems == InitEnv /\ srvN \in 0..MaxItems /\ srvL \in 1..MaxLimit
NextItems ==
    GetItemsCall \/ GetItemsPage \/ Exchange \/ SleepTimer \/ SleepCancelled \/ Cancel
SpecItems == InitItems /\ [][NextItems]_vars

\* --------------------------------------------- the task waiter over m.do
NextTask ==
    \/ WaitTaskCall \/ WaitTaskPolled \/ TaskSleepTimer \/ TaskSleepCancelled
    \/ Exchange \/ SleepTimer \/ SleepCancelled \/ Cancel
SpecTask == InitDo /\ [][NextTask]_vars

\* ------------------------- Request and Delete over m.do and the task waiter
NextRequest ==
    \/ RequestCall \/ RequestDo \/ WaitTasksNext \/ WaitTasksReturned
    \/ WaitTaskPolled \/ TaskSleepTimer \/ TaskSleepCancelled
    \/ Exchange \/ SleepTimer \/ SleepCancelled \/ Cancel
SpecRequest == InitDo /\ [][NextRequest]_vars

\* --------------------------------------------- loopWaitLock over m.do
NextWaitLock ==
    \/ LoopWaitLockCall \/ LoopWaitLockPolled \/ LoopWaitLockSleep
    \/ Exchange \/ SleepTimer \/ SleepCancelled \/ Cancel
SpecWaitLock == InitDo /\ [][NextWaitLock]_vars

\* --------------------------------------------- Arguments.merge on its own
NextMerge == MergeCall \/ MergeStep
SpecMerge == InitDo /\ [][NextMerge]_vars

\* ------------------------------------------------ properties of Manager.do
\* C1 as stated: when a call has met nothing but lock responses, k of them with
\* k*500 ms below the 1200 s lock timeout, and the scope is not cancelled, it
\* goes on to the next attempt; and once that attempt is answered with an
\* accepted 2xx the call has succeeded after k+1 exchanges and k sleeps of 500 ms.
C1_AsStated ==
    /\ (nOther = 0 /\ ~cancelled /\ nLock * RetryTime < LockTimeout * 1000)
          => ~Returned
    /\ (dpc = "ret" /\ nOther = 1 /\ lastResp.accepted /\ ~cancelled)
          => /\ IsNil(derr)
             /\ exch = nLock + 1 /\ sleeps = nLock
             /\ sleptMs = nLock * RetryTime

\* C1, amended: a call that has met nothing but lock responses and whose scope
\* is not cancelled gives up only with a lock timeout, and only once the time
\* elapsed since it began (exchanges included) is above 1200 s; when the attempt
\* after k lock responses is answered 2xx the call has issued exactly k+1
\* exchanges and slept exactly k times 500 ms, so at least k*500 ms elapsed, and
\* it has succeeded if the 2xx body was read and decoded without error.
C1_LockRetryThenSuccess ==
    /\ (Returned /\ nOther = 0 /\ ~cancelled)
          => /\ dpc = "ret" /\ derr.kind = "LockTimeout"
             /\ elapsed > LockTimeout * 1000
    /\ (dpc = "ret" /\ nOther = 1 /\ Is2xx(lastResp))
          => /\ exch = nLock + 1 /\ sleeps = nLock
             /\ sleptMs = nLock * RetryTime /\ elapsed >= sleptMs
             /\ lastResp.accepted => IsNil(derr)
             /\ IsNil(derr) => dtasks = lastResp.tasks

\* Two lock responses, then 200: success after three exchanges and 2 x 500 ms.
C1_Witness ==
    /\ dpc = "ret" /\ IsNil(derr) /\ lastResp.status = 200
    /\ nLock = 2 /\ nOther = 1 /\ exch = 3 /\ sleptMs = 2 * RetryTime

\* C2 as stated: after a 409 response whose error_alias list carries, at any
\* position, an alias other than "object_locked", the call has failed with the
\* business error: no sleep follows and no further attempt.
C2_AsStated ==
    (lastResp.status = 409 /\ \E i \in DOMAIN lastResp.aliases : lastResp.aliases[i] # OL)
        => dpc = "ret" /\ derr.kind = "Business"

\* C3: a lock-timeout error is returned only once the time elapsed since the
\* first attempt is above 1200 s; no exchange follows it; and a call that is never
\* cancelled and whose every attempt is answered with a lock response does return
\* the lock-timeout error.
C3_LockTimeout ==
    /\ [](derr.kind = "LockTimeout" => dpc = "ret" /\ elapsed > LockTimeout * 1000)
    /\ [][derr.kind = "LockTimeout" => exch' = exch /\ derr' = derr]_vars
    /\ (op = "do") ~> (nOther > 0 \/ cancelled
                        \/ (dpc = "ret" /\ derr.kind = "LockTimeout"))

\* Lock responses only, no cancellation, and the call ended with the timeout.
C3_Witness ==
    /\ dpc = "ret" /\ derr.kind = "LockTimeout" /\ ~cancelled
    /\ nOther = 0 /\ nLock = exch /\ exch > 1

\* C4: only 409 responses are retried.  A sleep or a further attempt follows
\* nothing but a 409; a transport failure or a non-2xx status other than 409 ends
\* the call with an error; at most one exchange of a call is not answered with
\* 409; and a finished call issued 1 + (number of retried 409 responses) exchanges.
C4_OnlyLocksRetried ==
    /\ lastResp.status \notin {409, -1}
          => /\ Returned
             /\ ~Is2xx(lastResp) => ~IsNil(derr)
    /\ dpc = "sleep" => lastResp.status = 409
    /\ exch - n409 <= 1
    /\ retries <= n409
    /\ Returned => exch = 1 + retries

\* A 409 was retried once and the next attempt, answered 500, ended the call.
C4_Witness ==
    /\ dpc = "ret" /\ lastResp.status = 500 /\ derr.kind = "ApiError"
    /\ exch = 2 /\ retries = 1 /\ n409 = 1

\* C5: while m.do sleeps between attempts with the scope cancelled, its only
\* step is to return the cancellation error itself, before the 500 ms are over
\* and without a further exchange.
C5_CancelDuringSleep ==
    /\ [][(dpc = "sleep" /\ cancelled)
            => /\ dpc' = "ret" /\ derr' = Err("Cancelled", <<>>)
               /\ exch' = exch /\ sleeps' = sleeps
               /\ sleptMs' - sleptMs < RetryTime]_vars
    /\ [](derr.kind = "Cancelled" => dpc = "ret" /\ exch = retries + 1)

\* The scope was cancelled after one completed retry, in the second sleep.
C5_Witness ==
    /\ dpc = "ret" /\ derr.kind = "Cancelled" /\ cancelled
    /\ exch = 2 /\ sleeps = 1 /\ sleptMs > RetryTime /\ sleptMs < 2 * RetryTime

\* ------------------------------------------- properties of Manager.GetItems
\* Every page so far was the server's true page and every page's m.do succeeded,
\* in a call that started from an empty destination.
HonestRun == gpc # "idle" /\ honest /\ ~doFailed /\ target0 = <<>>

\* Pages a server holding n items serves them in, with page size l.
PagesOf(n, l) == IF n = 0 THEN 1 ELSE (n + l - 1) \div l

\* C6: against a server that holds N items and serves them L to a page, a call
\* that starts from an empty destination requests pages 1, 2, 3, ... in order,
\* each once; while page p is being fetched the destination holds the items of
\* pages 1..p-1 in server order; and the call ends, without error, with the
\* destination holding exactly the N items in server order.
C6_PaginatorCollectsAll ==
    HonestRun =>
        /\ pagesReq = [i \in 1..page |-> i]
        /\ page <= PagesOf(srvN, srvL)
        /\ gpc \in {"call", "done"}
        /\ gpc = "call" => target = SubSeq(Catalogue, 1, (page - 1) * srvL)
        /\ gpc = "done" => /\ IsNil(gerr)
                           /\ target = SubSeq(Catalogue, 1, srvN)
                           /\ page = PagesOf(srvN, srvL)

\* Three items, one to a page: pages 1, 2, 3 and the three items in order.
C6_Witness ==
    /\ HonestRun /\ gpc = "done" /\ srvN = 3 /\ srvL = 1
    /\ pagesReq = <<1, 2, 3>> /\ target = <<1, 2, 3>>

\* C7 as stated: when the items of a page p >= 2 fail to decode, GetItems
\* returns a decode error and the destination does not hold the items of the
\* earlier pages.
C7_AsStated ==
    (gpc = "done" /\ gerr.kind = "ItemsDecode" /\ page >= 2)
        => target = target0

\* C8 as stated: GetItems returns success only with the accumulated length
\* equal to the total of the last page envelope, and requests no further page
\* once the two are equal.
C8_AsStated ==
    /\ (gpc = "done" /\ IsNil(gerr)) => Len(target) = temp.total
    /\ (gpc = "call" /\ page > 1) => Len(target) # temp.total

\* C9 as stated: when the exchange of some page failed, GetItems returns a
\* non-nil error.
C9_AsStated ==
    (gpc = "done" /\ doFailed) => ~IsNil(gerr)

\* ------------------------------------------- properties of Manager.WaitTask
\* The job record of the last fetch, as the server sent it.
FetchedJob == lastResp.payload
JobFetched ==
    op = "WaitTask" /\ wpc \in {"sleep", "done", "cut"} /\ lastResp.status = 200
    /\ FetchedJob \in JobRecords

\* C10 as stated: once a fetched job record reports status "error" with name N,
\* WaitTask has stopped polling and returned a job-failure error that carries N.
C10_AsStated ==
    (JobFetched /\ FetchedJob.status = "error")
        => /\ wpc = "done"
           /\ werr.kind = "TaskError"
           /\ werr.info = <<FetchedJob.name>>

C12_AsStated ==
    /\ werr.kind = "TaskTimeout" => taskElapsed > TaskTimeout * 1000
    /\ (wpc = "done" /\ ~cancelled /\ JobFetched /\ FetchedJob.status = "running")
          => werr.kind = "TaskTimeout"

\* ------------------------------------- properties of Manager.do, continued
\* C14 as stated: when m.do returns after a response was received, it returns
\* the X-Esu-Tasks header value of that response, also beside an error.
C14_AsStated ==
    (dpc = "ret" /\ Is2xx(lastResp)) => dtasks = lastResp.tasks

\* C16 as stated: a non-2xx response other than 409, and a 409 response whose
\* first alias is not "object_locked", both end the call with an ApiError that
\* carries the status code of the response.
C16_AsStated ==
    /\ (Returned /\ lastResp.status > 0 /\ lastResp.status # 409 /\ ~Is2xx(lastResp))
          => derr.kind = "ApiError" /\ derr.info.code = lastResp.status
    /\ (Returned /\ lastResp.status = 409
            /\ lastResp.aliases # <<>> /\ lastResp.aliases[1] # OL)
          => derr.kind = "ApiError" /\ derr.info.code = 409

\* C19 as stated: after a 409 response whose body carries no alias other than
\* "object_locked" (also an empty or undecodable body, or one without
\* error_alias) the call sleeps and retries: it ends only by the lock timeout
\* or by cancellation of the sleep.
C19_AsStated ==
    (lastResp.status = 409
        /\ \A i \in DOMAIN lastResp.carried : lastResp.carried[i] = OL)
      => \/ dpc \in {"sleep", "send"}
         \/ dpc = "ret" /\ derr.kind \in {"LockTimeout", "Cancelled"}

\* ------------------------------------------ properties of Arguments.merge
\* The override maps of the call that hold key k.
Holders(k) == {i \in DOMAIN extraArgs0 : k \in DOMAIN extraArgs0[i]}
LastHolder(k) == CHOOSE i \in Holders(k) : \A j \in Holders(k) : j <= i

\* C17: when A.merge([B1..Bn]) is over, a key held by some Bi maps to its value
\* in the last Bi that holds it, a key held by A alone keeps A's value, no other
\* key is present, and B1..Bn are what they were.
C17_MergeRightBiased ==
    mpc = "done" =>
        /\ DOMAIN args = DOMAIN args0 \cup {k \in ArgKeys : Holders(k) # {}}
        /\ \A k \in DOMAIN args :
              args[k] = IF Holders(k) # {} THEN extraArgs0[LastHolder(k)][k]
                        ELSE args0[k]
        /\ extraArgs = extraArgs0

\* A holds "vdc"; B1 and B2 give different values for it and B2's value won;
\* "name" came from B1 alone.
C17_Witness ==
    /\ mpc = "done" /\ Len(extraArgs0) = 2
    /\ args0 = [k \in {"vdc"} |-> "x"]
    /\ extraArgs0[1] = [k \in {"vdc", "name"} |-> "x"]
    /\ extraArgs0[2] = [k \in {"vdc"} |-> "y"]
    /\ args = [k \in {"vdc", "name"} |-> IF k = "vdc" THEN "y" ELSE "x"]

\* ------------------------------- properties of Request, Delete, waitTasks
\* C13 as stated: when Request / Delete has returned and a task it waited on
\* ended with an error (failure, timeout, cancelled wait), or the job record of
\* the last one could not be fetched, the error returned is not nil.
C13_AsStated ==
    /\ (rpc = "done" /\ \E i \in DOMAIN waitEnds : ~IsNil(waitEnds[i]))
          => ~IsNil(rerr)
    /\ (rpc = "done" /\ waited # <<>> /\ derr.kind \in {"Transport", "ApiError"})
          => ~IsNil(rerr)

\* The entries of header value h: its comma-separated pieces, trimmed, the
\* empty ones left out, in header order.
Entries(h) ==
    LET parts == Split(h)
        trimmed == [i \in DOMAIN parts |-> TrimSpace(parts[i])]
        NotEmpty(e) == e # <<>>
    IN SelectSeq(trimmed, NotEmpty)

\* C15: the ids WaitTask is invoked with are, in order, a prefix of the entries
\* of the header value, none of them empty; a wait starts only when every
\* earlier one has returned, and returned nil; when waitTasks returns nil the
\* whole list was waited on, and when it returns an error that error is the one
\* of the last wait started, all earlier ones having returned nil.
C15_WaitTasksSequence ==
    /\ [](/\ Len(waited) <= Len(Entries(taskIds))
          /\ waited = SubSeq(Entries(taskIds), 1, Len(waited))
          /\ \A i \in DOMAIN waited : waited[i] # <<>>
          /\ (rpc = "done" /\ IsNil(waitErr))
                => /\ waited = Entries(taskIds)
                   /\ \A i \in DOMAIN waitEnds : IsNil(waitEnds[i])
          /\ (rpc = "done" /\ ~IsNil(waitErr))
                => /\ Len(waitEnds) = Len(waited)
                   /\ waitEnds[Len(waitEnds)] = waitErr
                   /\ \A i \in 1..(Len(waitEnds) - 1) : IsNil(waitEnds[i]))
    /\ [][waited' # waited
            => /\ Len(waitEnds) = Len(waited)
               /\ \A i \in DOMAIN waitEnds : IsNil(waitEnds[i])
               /\ wpc \in {"idle", "done"}
               /\ Len(waited') = Len(waited) + 1]_vars

\* Header " a ,,b": WaitTask was invoked with "a", then with "b", and no more.
C15_Witness ==
    /\ rpc = "done" /\ taskIds = <<" ", "a", " ", ",", ",", "b">>
    /\ waited = << <<"a">>, <<"b">> >> /\ Len(waitEnds) = 2 /\ IsNil(waitErr)

\* C18: WaitTask is invoked only after m.do of the mutating exchange returned,
\* and returned without error on a 2xx response; when m.do returned an error
\* no task is waited on; and when Request / Delete has returned, every wait it
\* started has returned.
C18_WaitOnlyAfterSuccess ==
    /\ [](/\ waited # <<>> => IsNil(rerr) /\ rpc \notin {"idle", "do"}
          /\ ~IsNil(rerr) => waited = <<>>
          /\ rpc = "done" => /\ Len(waitEnds) = Len(waited)
                             /\ wpc \in {"idle", "done"})
    /\ [][(waited = <<>> /\ waited' # <<>>)
            => /\ rpc = "wait" /\ dpc = "ret" /\ IsNil(derr)
               /\ Is2xx(lastResp) /\ lastResp.tasks = taskIds]_vars

\* Delete was answered 2xx with handle "a", waited for it and returned nil.
C18_Witness ==
    /\ verb = "Delete" /\ rpc = "done" /\ IsNil(rerr)
    /\ waited = << <<"a">> >> /\ Len(waitEnds) = 1

\* ------------------------------------------------ properties of the sleeps
\* C20 as stated, for loopWaitLock: no sleep of it runs on once the scope is
\* cancelled, and when the scope is cancelled during a sleep of the lock-state
\* fetch, loopWaitLock returns the cancellation error as its own.
C20_AsStated ==
    /\ ~sleptThrough
    /\ (lpc = "done" /\ derr.kind = "Cancelled") => lerr = derr

\* --------------------------------- properties of Manager.GetItems, continued
\* C21 as stated: a GetItems call whose page exchanges all succeeded and whose
\* scope is not cancelled is fetching a page or has returned: it neither
\* panics nor is it still short of its end after MaxPages pages.
C21_AsStated ==
    (gpc # "idle" /\ ~doFailed /\ ~cancelled) => gpc \in {"call", "done"}

====
